---------------------------- MODULE Spec2Model ----------------------------
(***************************************************************************)
(* A state-machine model of the PongGame client (src/js/game.js) with its  *)
(* configuration (src/js/config.js).                                       *)
(*                                                                         *)
(* The page runs one event loop: every action below is one callback of the *)
(* program run to completion (a WebSocket event, a key event, the 16 ms    *)
(* sampler tick, a reset click, a window resize, an animation frame).      *)
(*                                                                         *)
(* Conventions:                                                            *)
(*  - a JavaScript value that may be undefined/null is a sequence of       *)
(*    length 0 (undefined) or 1 (the value);                               *)
(*  - a JavaScript object is a record; a property the object lacks is a    *)
(*    field the record lacks;                                              *)
(*  - a JavaScript number that takes part in a division is an exact        *)
(*    rational <<n, d>> in lowest terms, <<1, 0>> is Infinity and <<0, 0>> *)
(*    is NaN (rounding of IEEE doubles is not modelled);                   *)
(*  - requested, outbox, painted, threw, reconciled and inbound record     *)
(*    what the most recent callback did; every callback overwrites them.   *)
(***************************************************************************)
EXTENDS Integers, Sequences, FiniteSets, TLC

(***************************************************************************)
(* Bounds of the model.                                                    *)
(***************************************************************************)
\* gameplay payloads of inbound snapshots are numbered 0..MaxStep
MaxStep == 1
\* at most MaxHeld keys are held down at once
MaxHeld == 2
\* the widths and heights the fit is tried on are 100, 200 .. 100 * MaxDim
MaxDim == 4

(***************************************************************************)
(* Program constants.                                                      *)
(***************************************************************************)
CANVAS_WIDTH == 800
CANVAS_HEIGHT == 600

CONTROLS ==
    [PLAYER1 |-> [UP |-> "w", DOWN |-> "s", LEFT |-> "a", RIGHT |-> "d"],
     PLAYER2 |-> [UP |-> "ArrowUp", DOWN |-> "ArrowDown",
                  LEFT |-> "ArrowLeft", RIGHT |-> "ArrowRight"]]

(***************************************************************************)
(* JavaScript values.                                                      *)
(***************************************************************************)
Undefined == <<>>

Prop(obj, k) == IF k \in DOMAIN obj THEN <<obj[k]>> ELSE Undefined

NaN == <<0, 0>>

RECURSIVE Gcd(_, _)
Gcd(a, b) == IF b = 0 THEN a ELSE Gcd(b, a % b)

\* n/d for n, d >= 0 as a JavaScript number
Rat(n, d) ==
    IF d = 0 THEN (IF n = 0 THEN NaN ELSE <<1, 0>>)
    ELSE LET g == Gcd(n, d) IN <<n \div g, d \div g>>

\* the number an (integer or undefined) operand is in arithmetic
Num(v) == IF v = Undefined THEN NaN ELSE Rat(v[1], 1)

RMul(a, b) == IF a = NaN \/ b = NaN THEN NaN ELSE Rat(a[1] * b[1], a[2] * b[2])

RDiv(a, b) == IF a = NaN \/ b = NaN THEN NaN ELSE Rat(a[1] * b[2], a[2] * b[1])

\* a > b, false when either is NaN
RGt(a, b) == a # NaN /\ b # NaN /\ a[1] * b[2] > b[1] * a[2]

\* if (v): an undefined or zero number is falsy
Truthy(v) == v # Undefined /\ v[1] # 0

\* String.prototype.toLowerCase on the key names the model types
ToLowerCase(s) ==
    CASE s = "W" -> "w"
      [] s = "S" -> "s"
      [] s = "A" -> "a"
      [] s = "D" -> "d"
      [] s = "ArrowUp" -> "arrowup"
      [] s = "ArrowDown" -> "arrowdown"
      [] s = "ArrowLeft" -> "arrowleft"
      [] s = "ArrowRight" -> "arrowright"
      [] OTHER -> s

(***************************************************************************)
(* Inputs: the inbound frames, the keys, the viewport boxes.               *)
(***************************************************************************)
Geometries == {<<800, 600>>, <<400, 400>>}

\* a complete Snapshot: gameplay payload number i on geometry g
Snap(i, g) ==
    [paddle1 |-> [x |-> 20, y |-> 100 + 50 * i, width |-> 10, height |-> 100],
     paddle2 |-> [x |-> g[1] - 30, y |-> 200 - 50 * i, width |-> 10, height |-> 100],
     ball |-> [x |-> 100 + 30 * i, y |-> 150 + 20 * i, radius |-> 8],
     score1 |-> i,
     score2 |-> 2 * i,
     canvas_width |-> g[1],
     canvas_height |-> g[2]]

\* obj without the properties in ks
Without(obj, ks) == [k \in (DOMAIN obj) \ ks |-> obj[k]]

FullSnapshots == {Snap(i, g) : i \in 0..MaxStep, g \in Geometries}

\* payloads that lack properties a Snapshot has
PartialSnapshots ==
    {Without(Snap(0, <<800, 600>>), {"canvas_width"}),
     Without(Snap(MaxStep, <<400, 400>>), {"canvas_width", "canvas_height"}),
     Without(Snap(0, <<800, 600>>), {"paddle1"}),
     Without(Snap(MaxStep, <<800, 600>>), {"ball"})}

Snapshots == FullSnapshots \cup PartialSnapshots

\* event.data of an inbound frame: text that JSON.parse rejects, or the
\* JSON encoding of a value
Frames ==
    {[parses |-> FALSE]}
    \cup {[parses |-> TRUE, value |-> Undefined]}
    \cup {[parses |-> TRUE, value |-> <<m>>] :
            m \in {[type |-> "connected", message |-> "joined"],
                   [type |-> "player_disconnected", message |-> "left"],
                   [type |-> "ping"],
                   [message |-> "untyped"],
                   [type |-> "game_state"]}}
    \cup {[parses |-> TRUE, value |-> <<[type |-> "game_state", data |-> s]>>] :
            s \in Snapshots}

\* event.key of the key events
Keys == {"w", "W", "s", "a", "d", "ArrowUp", "ArrowDown", "ArrowLeft", "ArrowRight"}

\* clientWidth x clientHeight of the canvas's parent element
Containers == {<<1000, 500>>, <<400, 500>>, <<400, 300>>}

\* the playerId the page passes to the constructor
PlayerIds == {"player1", "player2", "spectator"}

(***************************************************************************)
(* State.                                                                  *)
(***************************************************************************)
VARIABLES
    pc,                     \* "constructed" until init() has run, then "running"
    playerId,               \* this.playerId
    canvas,                 \* canvas.width, canvas.height (internal resolution)
    style,                  \* canvas.style.width, canvas.style.height (px)
    scaleX,                 \* this.scaleX
    scaleY,                 \* this.scaleY
    initialDimensionsSet,   \* this.initialDimensionsSet
    gameState,              \* this.gameState
    connected,              \* this.connected
    pressedKeys,            \* this.pressedKeys
    statusText,             \* the status element's text after "Status: "
    container,              \* the parent element's client box
    wsCount,                \* WebSocket objects constructed so far
    readyState,             \* this.ws.readyState: "CONNECTING", "OPEN" or "CLOSED"
    connState,              \* ConnectionState as the handlers have seen it
    rafPending,             \* an animation-frame callback is scheduled
    requested,              \* frames the last callback called sendInput/resetGame for
    outbox,                 \* frames the socket took for sending in the last callback
    painted,                \* drawing calls made by the last callback
    threw,                  \* the exception the last callback ended with
    reconciled,             \* the last callback ran handleResize past its guard
    inbound                 \* what the last callback did with an inbound frame

vars == <<pc, playerId, canvas, style, scaleX, scaleY, initialDimensionsSet,
          gameState, connected, pressedKeys, statusText, container, wsCount,
          readyState, connState, rafPending, requested, outbox, painted, threw,
          reconciled, inbound>>

(***************************************************************************)
(* Init: the state the constructor leaves.                                 *)
(***************************************************************************)
Unset == <<>>

Init ==
    /\ pc = "constructed"
    /\ playerId \in PlayerIds
    /\ canvas = [width |-> CANVAS_WIDTH, height |-> CANVAS_HEIGHT]
    /\ style = [width |-> Unset, height |-> Unset]
    /\ scaleX = Rat(1, 1)
    /\ scaleY = Rat(1, 1)
    /\ initialDimensionsSet = FALSE
    /\ gameState = Undefined
    /\ connected = FALSE
    /\ pressedKeys = {}
    /\ statusText = ""
    /\ container \in Containers
    /\ wsCount = 0
    /\ readyState = "CONNECTING"
    /\ connState = "Connecting"
    /\ rafPending = FALSE
    /\ requested = <<>>
    /\ outbox = <<>>
    /\ painted = <<>>
    /\ threw = "none"
    /\ reconciled = FALSE
    /\ inbound = "none"

(***************************************************************************)
(* Dimension reconciliation: handleResize.                                 *)
(***************************************************************************)
\* the test as it would be with its operands exchanged
FitToHeightFlipped(containerAspectRatio, gameAspectRatio) ==
    RGt(gameAspectRatio, containerAspectRatio)

\* if (containerAspectRatio > gameAspectRatio): fit to height
FitToHeight(containerAspectRatio, gameAspectRatio) ==
    RGt(containerAspectRatio, gameAspectRatio)

\* the display box as it would be if the canvas were stretched over the box
FitBoxStretch(gs, box) ==
    [displayWidth |-> Rat(box[1], 1), displayHeight |-> Rat(box[2], 1)]

\* displayWidth and displayHeight for snapshot gs in the box <<w, h>>
FitBox(gs, box) ==
    LET containerWidth == Rat(box[1], 1)
        containerHeight == Rat(box[2], 1)
        gameAspectRatio ==
            RDiv(Num(Prop(gs, "canvas_width")), Num(Prop(gs, "canvas_height")))
        containerAspectRatio == RDiv(containerWidth, containerHeight)
    IN  IF FitToHeight(containerAspectRatio, gameAspectRatio)
        THEN [displayWidth |-> RMul(containerHeight, gameAspectRatio),
              displayHeight |-> containerHeight]
        ELSE [displayWidth |-> containerWidth,
              displayHeight |-> RDiv(containerWidth, gameAspectRatio)]

\* the early return as it would be without the test of initialDimensionsSet
ResizeReturnsEarlyNoDimsTest(gs, dimsSet) == gs = Undefined

\* the early return: no snapshot yet, or no backend dimensions yet
ResizeReturnsEarly(gs, dimsSet) == gs = Undefined \/ ~dimsSet

\* handleResize() run with this.gameState = gs, this.initialDimensionsSet =
\* dimsSet and the parent element's box
HandleResize(gs, dimsSet, box) ==
    IF ResizeReturnsEarly(gs, dimsSet)
    THEN /\ reconciled' = FALSE
         /\ UNCHANGED <<style, scaleX, scaleY>>
    ELSE LET d == FitBox(gs[1], box) IN
         /\ style' = [width |-> <<d.displayWidth>>, height |-> <<d.displayHeight>>]
         /\ scaleX' = RDiv(d.displayWidth, Num(Prop(gs[1], "canvas_width")))
         /\ scaleY' = RDiv(d.displayHeight, Num(Prop(gs[1], "canvas_height")))
         /\ reconciled' = TRUE

(***************************************************************************)
(* Rendering: render and the draw helpers.                                 *)
(***************************************************************************)
\* drawPaddle(paddle): reading paddle.x of an undefined paddle raises
DrawPaddle(paddle) ==
    IF paddle = Undefined
    THEN [ops |-> <<>>, threw |-> "TypeError"]
    ELSE [ops |-> <<[op |-> "paddle", x |-> paddle[1].x, y |-> paddle[1].y,
                     width |-> paddle[1].width, height |-> paddle[1].height]>>,
          threw |-> "none"]

\* drawBall(ball): reading ball.x of an undefined ball raises
DrawBall(ball) ==
    IF ball = Undefined
    THEN [ops |-> <<>>, threw |-> "TypeError"]
    ELSE [ops |-> <<[op |-> "ball", x |-> ball[1].x, y |-> ball[1].y,
                     radius |-> ball[1].radius]>>,
          threw |-> "none"]

\* drawScores(): two fillText calls at a quarter and three quarters of the width
DrawScores(gs, cv) ==
    <<[op |-> "score", value |-> Prop(gs, "score1"), x |-> Rat(cv.width, 4), y |-> 60],
      [op |-> "score", value |-> Prop(gs, "score2"),
       x |-> RMul(Rat(cv.width, 4), Rat(3, 1)), y |-> 60]>>

\* drawCenterLine()
DrawCenterLine(cv) ==
    <<[op |-> "centerLine", x |-> Rat(cv.width, 2), height |-> cv.height]>>

\* a sequence of draw steps run until one raises
RECURSIVE RunDraws(_)
RunDraws(steps) ==
    IF steps = <<>> THEN [ops |-> <<>>, threw |-> "none"]
    ELSE IF Head(steps).threw # "none" THEN Head(steps)
    ELSE LET rest == RunDraws(Tail(steps)) IN
         [ops |-> Head(steps).ops \o rest.ops, threw |-> rest.threw]

\* render() with this.gameState = gs and the canvas cv
Render(gs, cv) ==
    LET background ==
            [ops |-> <<[op |-> "background", width |-> cv.width, height |-> cv.height]>>,
             threw |-> "none"]
    IN  IF gs = Undefined
        THEN [ops |-> background.ops \o
                      <<[op |-> "text", text |-> "Waiting for game state...",
                         x |-> Rat(cv.width, 2), y |-> Rat(cv.height, 2)]>>,
              threw |-> "none"]
        ELSE RunDraws(<<background,
                        [ops |-> DrawCenterLine(cv), threw |-> "none"],
                        DrawPaddle(Prop(gs[1], "paddle1")),
                        DrawPaddle(Prop(gs[1], "paddle2")),
                        DrawBall(Prop(gs[1], "ball")),
                        [ops |-> DrawScores(gs[1], cv), threw |-> "none"]>>)

\* animate(): render, then requestAnimationFrame(animate) unless render raised
Animate ==
    LET r == Render(gameState, canvas) IN
    /\ painted' = r.ops
    /\ threw' = r.threw
    /\ rafPending' = (r.threw = "none")

(***************************************************************************)
(* The connection: connectWebSocket and the four WebSocket handlers.       *)
(***************************************************************************)
\* updateConnectionStatus(status); the status element is on the page
UpdateConnectionStatus(status) == statusText' = status

\* connectWebSocket(): this.ws = new WebSocket(wsUrl)
ConnectWebSocket ==
    /\ wsCount' = wsCount + 1
    /\ readyState' = "CONNECTING"
    /\ connState' = "Connecting"

\* ws.onopen
OnOpen ==
    /\ connected' = TRUE
    /\ UpdateConnectionStatus("Connected")
    /\ connState' = "Open"

\* ws.onclose as it would be if it left the status text alone
OnCloseKeepsStatus ==
    /\ connected' = FALSE
    /\ UNCHANGED statusText
    /\ connState' = "Closed"
    /\ readyState' = "CLOSED"
    /\ UNCHANGED wsCount

\* ws.onclose as it would be with an automatic reconnect
OnCloseReconnects ==
    /\ connected' = FALSE
    /\ UpdateConnectionStatus("Disconnected")
    /\ ConnectWebSocket

\* ws.onclose; the socket is closed and no other is constructed
OnClose ==
    /\ connected' = FALSE
    /\ UpdateConnectionStatus("Disconnected")
    /\ connState' = "Closed"
    /\ readyState' = "CLOSED"
    /\ UNCHANGED wsCount

\* ws.onerror
OnError ==
    /\ UpdateConnectionStatus("Connection error")
    /\ connState' = "Errored"
    /\ UNCHANGED connected

\* the store as it would be if a payload were merged into the held Snapshot
StoreMerge(old, data) ==
    IF old = Undefined \/ data = Undefined THEN data
    ELSE <<[k \in (DOMAIN old[1]) \cup (DOMAIN data[1]) |->
              IF k \in DOMAIN data[1] THEN data[1][k] ELSE old[1][k]]>>

\* this.gameState = message.data
StoreReplace(old, data) == data

\* the geometry gate as it would be without the comparison with the canvas
DimensionsChangedAlways(dimsSet, cv, gs) == TRUE

\* the geometry gate as it would be without the test of initialDimensionsSet
DimensionsChangedNoFirstTime(dimsSet, cv, gs) ==
    \/ cv.width # gs.canvas_width
    \/ cv.height # gs.canvas_height

\* the geometry gate as it would be if it let the canvas grow only
DimensionsChangedGrowOnly(dimsSet, cv, gs) ==
    \/ ~dimsSet
    \/ cv.width < gs.canvas_width
    \/ cv.height < gs.canvas_height

\* the geometry gate as it would be if only the first dimensions passed it
DimensionsChangedFirstOnly(dimsSet, cv, gs) == ~dimsSet

\* the geometry gate: first dimensions, or dimensions that differ from the canvas
DimensionsChanged(dimsSet, cv, gs) ==
    \/ ~dimsSet
    \/ cv.width # gs.canvas_width
    \/ cv.height # gs.canvas_height

\* the game_state branch of ws.onmessage for the parsed message m
OnGameState(m) ==
    LET gs == StoreReplace(gameState, Prop(m, "data")) IN
    /\ gameState' = gs
    /\ inbound' = "game_state"
    /\ UNCHANGED statusText
    /\ IF gs = Undefined
       THEN \* reading canvas_width of undefined raises
            /\ threw' = "TypeError"
            /\ reconciled' = FALSE
            /\ UNCHANGED <<canvas, initialDimensionsSet, style, scaleX, scaleY>>
       ELSE /\ threw' = "none"
            /\ IF /\ Truthy(Prop(gs[1], "canvas_width"))
                  /\ Truthy(Prop(gs[1], "canvas_height"))
                  /\ DimensionsChanged(initialDimensionsSet, canvas, gs[1])
               THEN /\ canvas' = [width |-> gs[1].canvas_width,
                                  height |-> gs[1].canvas_height]
                    /\ initialDimensionsSet' = TRUE
                    /\ HandleResize(gs, TRUE, container)
               ELSE /\ reconciled' = FALSE
                    /\ UNCHANGED <<canvas, initialDimensionsSet, style, scaleX, scaleY>>

\* the other branches as they would be if the last one had no type test
OnOtherMessageNoTypeTest(type) ==
    /\ IF type = <<"connected">>
       THEN inbound' = "notice" /\ UNCHANGED statusText
       ELSE inbound' = "notice" /\ UpdateConnectionStatus("Waiting for other player...")
    /\ threw' = "none"
    /\ reconciled' = FALSE
    /\ UNCHANGED <<gameState, canvas, initialDimensionsSet, style, scaleX, scaleY>>

\* the other branches as they would be if player_disconnected cleared the store
OnOtherMessageClearsStore(type) ==
    /\ IF type = <<"connected">>
       THEN inbound' = "notice" /\ UNCHANGED <<statusText, gameState>>
       ELSE IF type = <<"player_disconnected">>
       THEN /\ inbound' = "notice"
            /\ UpdateConnectionStatus("Waiting for other player...")
            /\ gameState' = Undefined
       ELSE inbound' = "dropped" /\ UNCHANGED <<statusText, gameState>>
    /\ threw' = "none"
    /\ reconciled' = FALSE
    /\ UNCHANGED <<canvas, initialDimensionsSet, style, scaleX, scaleY>>

\* the branches of ws.onmessage for the other message types
OnOtherMessage(type) ==
    /\ IF type = <<"connected">>
       THEN inbound' = "notice" /\ UNCHANGED statusText
       ELSE IF type = <<"player_disconnected">>
       THEN inbound' = "notice" /\ UpdateConnectionStatus("Waiting for other player...")
       ELSE inbound' = "dropped" /\ UNCHANGED statusText
    /\ threw' = "none"
    /\ reconciled' = FALSE
    /\ UNCHANGED <<gameState, canvas, initialDimensionsSet, style, scaleX, scaleY>>

\* ws.onmessage for the frame f
OnMessage(f) ==
    IF ~f.parses \/ f.value = Undefined
    THEN \* JSON.parse raises a SyntaxError; message.type of null a TypeError
         /\ threw' = (IF f.parses THEN "TypeError" ELSE "SyntaxError")
         /\ inbound' = "dropped"
         /\ reconciled' = FALSE
         /\ UNCHANGED <<gameState, canvas, initialDimensionsSet, style, scaleX,
                        scaleY, statusText>>
    ELSE IF Prop(f.value[1], "type") = <<"game_state">>
         THEN OnGameState(f.value[1])
         ELSE OnOtherMessage(Prop(f.value[1], "type"))

(***************************************************************************)
(* Outbound frames: sendInput, resetGame and the sampler.                  *)
(***************************************************************************)
\* the gate as it would be without the test of this.connected
CanSendUnlessNull == wsCount > 0

\* if (this.ws && this.connected)
CanSend == wsCount > 0 /\ connected

\* sendInput(action): the frames it hands to ws.send
SendInput(action) ==
    IF CanSend THEN <<[type |-> "input", action |-> action]>> ELSE <<>>

\* sendInput called for each action of a sequence
RECURSIVE SendInputs(_)
SendInputs(actions) ==
    IF actions = <<>> THEN <<>>
    ELSE SendInput(Head(actions)) \o SendInputs(Tail(actions))

\* resetGame() as it would be if it sent the reset as an input action
ResetGameAsInput ==
    IF CanSend THEN <<[type |-> "input", action |-> "RESET"]>> ELSE <<>>

\* resetGame(): the frames it hands to ws.send
ResetGame == IF CanSend THEN <<[type |-> "reset"]>> ELSE <<>>

\* ws.send for each of frames: a socket that is still connecting raises
\* InvalidStateError, an open one takes the frame for sending, a closed one
\* discards it
WsSend(frames) ==
    [sent |-> IF readyState = "OPEN" THEN frames ELSE <<>>,
     threw |-> IF frames # <<>> /\ readyState = "CONNECTING"
               THEN "InvalidStateError" ELSE "none"]

\* the control scheme as it would be if every player had player one's
ControlsOfPlayer1 == CONTROLS.PLAYER1

\* the control scheme of this player
Controls == IF playerId = "player1" THEN CONTROLS.PLAYER1 ELSE CONTROLS.PLAYER2

\* if (this.pressedKeys.has(controls.<dir>.toLowerCase())): sendInput(<dir>) is called
Sample(dir) ==
    IF ToLowerCase(Controls[dir]) \in pressedKeys THEN <<dir>> ELSE <<>>

\* the sampler as it would be with the four tests in the opposite order
SamplerTickReversed ==
    Sample("RIGHT") \o Sample("LEFT") \o Sample("DOWN") \o Sample("UP")

\* the sampler as it would be with else-if between the four tests
SamplerTickElseIf ==
    IF Sample("UP") # <<>> THEN Sample("UP")
    ELSE IF Sample("DOWN") # <<>> THEN Sample("DOWN")
    ELSE IF Sample("LEFT") # <<>> THEN Sample("LEFT")
    ELSE Sample("RIGHT")

\* the setInterval callback: the sendInput calls it makes, in order
SamplerTick == Sample("UP") \o Sample("DOWN") \o Sample("LEFT") \o Sample("RIGHT")

(***************************************************************************)
(* Actions: one per callback.                                              *)
(***************************************************************************)
viewVars == <<canvas, style, scaleX, scaleY, initialDimensionsSet, gameState>>
connVars == <<connected, statusText, wsCount, readyState, connState>>

\* the callback sent nothing, painted nothing and handled no frame
Quiet(vs) ==
    /\ (("outbox" \in vs) => (outbox' = <<>> /\ requested' = <<>>))
    /\ (("painted" \in vs) => painted' = <<>>)
    /\ (("threw" \in vs) => threw' = "none")
    /\ (("reconciled" \in vs) => reconciled' = FALSE)
    /\ (("inbound" \in vs) => inbound' = "none")

\* init(): connect, set up the listeners and the sampler, size the canvas,
\* start the render loop, show "Connecting..."
InitGame ==
    /\ pc = "constructed"
    /\ pc' = "running"
    /\ ConnectWebSocket
    /\ pressedKeys' = {}
    /\ HandleResize(gameState, initialDimensionsSet, container)
    /\ Animate
    /\ UpdateConnectionStatus("Connecting...")
    /\ Quiet({"outbox", "inbound"})
    /\ UNCHANGED <<playerId, canvas, initialDimensionsSet, gameState, connected,
                   container>>

\* the handshake succeeds: the open event
WsOpen ==
    /\ pc = "running"
    /\ readyState = "CONNECTING"
    /\ readyState' = "OPEN"
    /\ OnOpen
    /\ Quiet({"outbox", "painted", "threw", "reconciled", "inbound"})
    /\ UNCHANGED <<pc, playerId, viewVars, pressedKeys, container, wsCount,
                   rafPending>>

\* a frame arrives on the open socket: the message event
WsMessage(f) ==
    /\ pc = "running"
    /\ readyState = "OPEN"
    /\ OnMessage(f)
    /\ Quiet({"outbox", "painted"})
    /\ UNCHANGED <<pc, playerId, connected, pressedKeys, container, wsCount,
                   readyState, connState, rafPending>>

\* the connection fails: the error event (the socket is then closed, and its
\* close event is still to come)
WsError ==
    /\ pc = "running"
    /\ readyState \in {"CONNECTING", "OPEN"}
    /\ readyState' = "CLOSED"
    /\ OnError
    /\ Quiet({"outbox", "painted", "threw", "reconciled", "inbound"})
    /\ UNCHANGED <<pc, playerId, viewVars, pressedKeys, container, wsCount,
                   rafPending>>

\* the close event: a clean close of the open socket, or the close that
\* follows an error
WsClose ==
    /\ pc = "running"
    /\ \/ readyState = "OPEN"
       \/ readyState = "CLOSED" /\ connState = "Errored"
    /\ OnClose
    /\ Quiet({"outbox", "painted", "threw", "reconciled", "inbound"})
    /\ UNCHANGED <<pc, playerId, viewVars, pressedKeys, container, rafPending>>

\* the keydown listener
KeyDown(k) ==
    /\ pc = "running"
    /\ Cardinality(pressedKeys \cup {ToLowerCase(k)}) <= MaxHeld
    /\ pressedKeys' = pressedKeys \cup {ToLowerCase(k)}
    /\ Quiet({"outbox", "painted", "threw", "reconciled", "inbound"})
    /\ UNCHANGED <<pc, playerId, viewVars, connVars, container, rafPending>>

\* the keyup listener as it would be without toLowerCase
KeyUpNoLowerCase(k) ==
    /\ pc = "running"
    /\ pressedKeys' = pressedKeys \ {k}
    /\ Quiet({"outbox", "painted", "threw", "reconciled", "inbound"})
    /\ UNCHANGED <<pc, playerId, viewVars, connVars, container, rafPending>>

\* the keyup listener
KeyUp(k) ==
    /\ pc = "running"
    /\ pressedKeys' = pressedKeys \ {ToLowerCase(k)}
    /\ Quiet({"outbox", "painted", "threw", "reconciled", "inbound"})
    /\ UNCHANGED <<pc, playerId, viewVars, connVars, container, rafPending>>

\* the 16 ms input sampler
Tick ==
    /\ pc = "running"
    /\ requested' = [n \in 1..Len(SamplerTick) |->
                        [type |-> "input", action |-> SamplerTick[n]]]
    /\ outbox' = WsSend(SendInputs(SamplerTick)).sent
    /\ threw' = WsSend(SendInputs(SamplerTick)).threw
    /\ Quiet({"painted", "reconciled", "inbound"})
    /\ UNCHANGED <<pc, playerId, viewVars, connVars, pressedKeys, container,
                   rafPending>>

\* a click on the reset button
ResetClick ==
    /\ pc = "running"
    /\ requested' = <<[type |-> "reset"]>>
    /\ outbox' = WsSend(ResetGame).sent
    /\ threw' = WsSend(ResetGame).threw
    /\ Quiet({"painted", "reconciled", "inbound"})
    /\ UNCHANGED <<pc, playerId, viewVars, connVars, pressedKeys, container,
                   rafPending>>

\* the window's resize event with the parent element's new box
WindowResize(box) ==
    /\ pc = "running"
    /\ container' = box
    /\ HandleResize(gameState, initialDimensionsSet, box)
    /\ Quiet({"outbox", "painted", "threw", "inbound"})
    /\ UNCHANGED <<pc, playerId, canvas, initialDimensionsSet, gameState,
                   connVars, pressedKeys, rafPending>>

\* the scheduled animation-frame callback
AnimationFrame ==
    /\ pc = "running"
    /\ rafPending
    /\ Animate
    /\ Quiet({"outbox", "reconciled", "inbound"})
    /\ UNCHANGED <<pc, playerId, viewVars, connVars, pressedKeys, container>>

Next ==
    \/ InitGame
    \/ WsOpen
    \/ \E f \in Frames : WsMessage(f)
    \/ WsError
    \/ WsClose
    \/ \E k \in Keys : KeyDown(k)
    \/ \E k \in Keys : KeyUp(k)
    \/ Tick
    \/ ResetClick
    \/ \E box \in Containers : WindowResize(box)
    \/ AnimationFrame

Spec == Init /\ [][Next]_vars

(***************************************************************************)
(* The keyboard and the picture do not read each other's state, so the     *)
(* claims about each are checked with the other's events left out: the     *)
(* product of the two state spaces is what Spec explores.                  *)
(***************************************************************************)
\* frames that are no game_state frame
OtherFrames ==
    {f \in Frames : ~f.parses \/ f.value = Undefined
                      \/ Prop(f.value[1], "type") # <<"game_state">>}

\* the connection, the keyboard, the sampler and the reset button
NextInput ==
    \/ InitGame
    \/ WsOpen
    \/ \E f \in OtherFrames : WsMessage(f)
    \/ WsError
    \/ WsClose
    \/ \E k \in Keys : KeyDown(k)
    \/ \E k \in Keys : KeyUp(k)
    \/ Tick
    \/ ResetClick

SpecInput == Init /\ [][NextInput]_vars

\* the connection, the inbound frames, the viewport and the render loop
NextView ==
    \/ InitGame
    \/ WsOpen
    \/ \E f \in Frames : WsMessage(f)
    \/ WsError
    \/ WsClose
    \/ \E box \in Containers : WindowResize(box)
    \/ AnimationFrame

SpecView == Init /\ [][NextView]_vars

(***************************************************************************)
(* Every callback together, on fewer frames and keys.                      *)
(***************************************************************************)
FewFrames ==
    {[parses |-> FALSE],
     [parses |-> TRUE, value |-> <<[type |-> "connected", message |-> "joined"]>>],
     [parses |-> TRUE,
      value |-> <<[type |-> "player_disconnected", message |-> "left"]>>],
     [parses |-> TRUE,
      value |-> <<[type |-> "game_state", data |-> Snap(0, <<800, 600>>)]>>],
     [parses |-> TRUE,
      value |-> <<[type |-> "game_state", data |-> Snap(MaxStep, <<400, 400>>)]>>]}

FewKeys == {"w", "W", "ArrowUp"}

NextWhole ==
    \/ InitGame
    \/ WsOpen
    \/ \E f \in FewFrames : WsMessage(f)
    \/ WsError
    \/ WsClose
    \/ \E k \in FewKeys : KeyDown(k)
    \/ \E k \in FewKeys : KeyUp(k)
    \/ Tick
    \/ ResetClick
    \/ \E box \in Containers : WindowResize(box)
    \/ AnimationFrame

SpecWhole == Init /\ [][NextWhole]_vars

(***************************************************************************)
(* The fit of handleResize on more boxes and geometries: frames that each  *)
(* carry a whole Snapshot, and viewport resizes.                           *)
(***************************************************************************)
Sizes == {100 * k : k \in 1..MaxDim}

FitGeometries == Geometries \cup (Sizes \X Sizes)

FitBoxes == Containers \cup (Sizes \X Sizes)

\* a game_state frame with a complete Snapshot on geometry g
GeometryFrame(g) ==
    [parses |-> TRUE, value |-> <<[type |-> "game_state", data |-> Snap(0, g)]>>]

NextFit ==
    \/ InitGame
    \/ WsOpen
    \/ \E g \in FitGeometries : WsMessage(GeometryFrame(g))
    \/ \E box \in FitBoxes : WindowResize(box)

SpecFit == Init /\ [][NextFit]_vars

(***************************************************************************)
(* Vocabulary of the properties.                                           *)
(***************************************************************************)
\* the parsed message of a frame, when it is a game_state message
IsGameStateFrame(f) ==
    /\ f.parses
    /\ f.value # Undefined
    /\ Prop(f.value[1], "type") = <<"game_state">>

\* message.data of a game_state frame (undefined when the frame has none)
FrameData(f) == Prop(f.value[1], "data")

\* canvas_width and canvas_height as a store or a payload holds them
Geometry(gs) ==
    IF gs = Undefined THEN <<Undefined, Undefined>>
    ELSE <<Prop(gs[1], "canvas_width"), Prop(gs[1], "canvas_height")>>

\* both dimensions are there and positive
HasGeometry(gs) == Truthy(Geometry(gs)[1]) /\ Truthy(Geometry(gs)[2])

(***************************************************************************)
(* C1                                                                      *)
(***************************************************************************)
\* C1: no frame (an input frame of sendInput or a reset frame of resetGame)
\* goes out in a state whose ConnectionState is not Open, that is while it is
\* Connecting, Closed or Errored: the send asked for there is discarded, and
\* asking for it raises nothing.
C1_NoFrameUnlessOpen ==
    /\ outbox # <<>> => connState = "Open"
    /\ requested # <<>> => threw = "none"

\* C1's case: after an error on the open connection a reset click or a tick
\* with a key held asked for a send, and nothing went out
C1_Witness ==
    /\ connState = "Errored"
    /\ requested # <<>>
    /\ outbox = <<>>
    /\ threw = "none"

(***************************************************************************)
(* C2                                                                      *)
(***************************************************************************)
\* C2: the render loop never stops and never raises: once started, every
\* animation-frame callback completes render() and leaves the next frame
\* scheduled, whatever frames have arrived.
C2_RenderLoopNeverStops ==
    pc = "running" => (rafPending /\ (painted # <<>> => threw = "none"))

(***************************************************************************)
(* C3                                                                      *)
(***************************************************************************)
\* C3: handling a game_state frame whose data lacks canvas_width does not
\* raise, leaves the geometry the Store holds (the one later reconciliations
\* read) as it was, and replaces the gameplay fields by those of the frame.
C3_MissingWidthKeepsGeometry ==
    [][\A f \in Frames :
         (/\ IsGameStateFrame(f)
          /\ FrameData(f) # Undefined
          /\ "canvas_width" \notin DOMAIN FrameData(f)[1]
          /\ HasGeometry(gameState)
          /\ WsMessage(f))
         => (/\ threw' = "none"
             /\ Geometry(gameState') = Geometry(gameState)
             /\ \A k \in {"paddle1", "paddle2", "ball", "score1", "score2"} :
                    Prop(gameState'[1], k) = Prop(FrameData(f)[1], k))]_vars

(***************************************************************************)
(* C4                                                                      *)
(***************************************************************************)
\* a == b as JavaScript has it: NaN equals nothing
NumEq(a, b) == a # NaN /\ b # NaN /\ a = b

\* C4: from the first reconciliation on, the held transform is the fit of
\* the current Snapshot's geometry to the current viewport box, with
\* scaleX == displayWidth / canvas_width and scaleY == displayHeight /
\* canvas_height for that geometry.
C4_TransformFitsSnapshot ==
    style.width # Unset =>
        /\ HasGeometry(gameState)
        /\ LET d == FitBox(gameState[1], container) IN
           /\ NumEq(style.width[1], d.displayWidth)
           /\ NumEq(style.height[1], d.displayHeight)
           /\ NumEq(scaleX, RDiv(style.width[1], Num(Geometry(gameState)[1])))
           /\ NumEq(scaleY, RDiv(style.height[1], Num(Geometry(gameState)[2])))

(***************************************************************************)
(* C5                                                                      *)
(***************************************************************************)
\* C5: a game_state frame whose canvas_width and canvas_height are those of
\* the Snapshot it replaces does not run the reconciler: handleResize does not
\* get past its guard and the style size, scaleX and scaleY stay as they were.
C5_UnchangedGeometryNoReconcile ==
    [][\A f \in Frames :
         (/\ IsGameStateFrame(f)
          /\ gameState # Undefined
          /\ FrameData(f) # Undefined
          /\ Geometry(FrameData(f)) = Geometry(gameState)
          /\ WsMessage(f))
         => (~reconciled' /\ UNCHANGED <<style, scaleX, scaleY>>)]_vars

\* C5's case: a frame that carries geometry was stored over a Snapshot that
\* had been reconciled, and the reconciler did not run
C5_Witness ==
    /\ inbound = "game_state"
    /\ HasGeometry(gameState)
    /\ ~reconciled
    /\ style.width # Unset

(***************************************************************************)
(* C6                                                                      *)
(***************************************************************************)
\* C6: after a game_state frame with payload D is handled the Store holds
\* exactly D, no field of the Snapshot before it surviving; the Store is at
\* every moment one whole payload as it was received, so no render reads a
\* mix of two.
C6_StoreHoldsExactlyPayload ==
    /\ [](gameState = Undefined \/ gameState[1] \in Snapshots)
    /\ [][\A f \in Frames :
            (IsGameStateFrame(f) /\ WsMessage(f)) => gameState' = FrameData(f)]_vars

\* C6's case: a payload without paddle1 has replaced a Snapshot that had
\* one, and the render that followed found no paddle1 to paint
C6_Witness ==
    /\ gameState # Undefined
    /\ "paddle1" \notin DOMAIN gameState[1]
    /\ painted # <<>>
    /\ threw = "TypeError"

(***************************************************************************)
(* C7                                                                      *)
(***************************************************************************)
Directions == {"UP", "DOWN", "LEFT", "RIGHT"}

\* the frames of seq that are input frames with this action
InputFrames(seq, dir) ==
    SelectSeq(seq, LAMBDA m : m = [type |-> "input", action |-> dir])

\* C7: a sampler tick while the connection is Open sends, for each of the
\* four directions, exactly one input frame if the key the control scheme of
\* this player maps to it is in the pressed-key set and none otherwise, and
\* nothing else; every tick does so again.
C7_TickSendsOnePerHeldDirection ==
    [][(Tick /\ connState = "Open") =>
         /\ \A dir \in Directions :
               Len(InputFrames(outbox', dir)) =
                  IF ToLowerCase(Controls[dir]) \in pressedKeys THEN 1 ELSE 0
         /\ \A n \in 1..Len(outbox') :
               outbox'[n].type = "input" /\ outbox'[n].action \in Directions]_vars

\* C7's case: player1 holds w and d, the connection is Open, and the tick
\* has sent one UP and one RIGHT frame
C7_Witness ==
    /\ playerId = "player1"
    /\ pressedKeys = {"w", "d"}
    /\ connState = "Open"
    /\ outbox = <<[type |-> "input", action |-> "UP"],
                  [type |-> "input", action |-> "RIGHT"]>>

(***************************************************************************)
(* C8                                                                      *)
(***************************************************************************)
\* frames that do not parse or whose message has none of the three types
MalformedFrames ==
    {f \in Frames :
        \/ ~f.parses
        \/ f.value = Undefined
        \/ Prop(f.value[1], "type") \notin
              {<<"game_state">>, <<"connected">>, <<"player_disconnected">>}}

\* C8: handling a malformed frame leaves the Snapshot, the canvas
\* resolution, the transform, the connection state and the status text as
\* they were and stops neither the socket (it stays open, so the frames
\* after it are delivered and handled) nor the render loop.
C8_MalformedFrameDropped ==
    [][\A f \in MalformedFrames :
         WsMessage(f) =>
            /\ inbound' = "dropped"
            /\ UNCHANGED <<gameState, canvas, initialDimensionsSet, style,
                           scaleX, scaleY, connected, connState, readyState,
                           statusText, rafPending>>]_vars

\* C8's case: a frame JSON.parse rejected was dropped while a Snapshot was held
C8_Witness ==
    /\ inbound = "dropped"
    /\ threw = "SyntaxError"
    /\ gameState # Undefined
    /\ statusText = "Connected"

(***************************************************************************)
(* C9                                                                      *)
(***************************************************************************)
\* C9: once the connection is Closed or Errored it stays Closed or Errored
\* and is never Open again: connected does not turn true, the status does
\* not turn to Connected, and no second WebSocket is constructed
\* (connectWebSocket runs once, in init).
C9_ClosedIsTerminal ==
    /\ [][(connState \in {"Closed", "Errored"}) =>
            /\ connState' \in {"Closed", "Errored"}
            /\ (connected' => connected)
            /\ statusText' # "Connected"]_vars
    /\ [](wsCount = IF pc = "constructed" THEN 0 ELSE 1)

\* C9's case: the connection was open and has closed
C9_Witness ==
    /\ connState = "Closed"
    /\ readyState = "CLOSED"
    /\ ~connected
    /\ statusText = "Disconnected"
    /\ wsCount = 1

(***************************************************************************)
(* C10                                                                     *)
(***************************************************************************)
\* the drawing calls of the last render with this op
Painted(op) == SelectSeq(painted, LAMBDA o : o.op = op)

\* C10: a render with no Snapshot paints the background and the waiting
\* placeholder and nothing else; a render with a Snapshot paints the centre
\* divider, both paddles, the ball and both scores with exactly the
\* Snapshot's coordinates and sizes.
C10_RenderPaintsSnapshot ==
    painted # <<>> =>
        IF gameState = Undefined
        THEN /\ Len(painted) = 2
             /\ painted[1].op = "background"
             /\ painted[2].op = "text"
        ELSE LET gs == gameState[1] IN
             /\ Len(Painted("centerLine")) = 1
             /\ {"paddle1", "paddle2", "ball"} \subseteq DOMAIN gs
             /\ Painted("paddle") =
                   <<[op |-> "paddle", x |-> gs.paddle1.x, y |-> gs.paddle1.y,
                      width |-> gs.paddle1.width, height |-> gs.paddle1.height],
                     [op |-> "paddle", x |-> gs.paddle2.x, y |-> gs.paddle2.y,
                      width |-> gs.paddle2.width, height |-> gs.paddle2.height]>>
             /\ Painted("ball") =
                   <<[op |-> "ball", x |-> gs.ball.x, y |-> gs.ball.y,
                      radius |-> gs.ball.radius]>>
             /\ Len(Painted("score")) = 2
             /\ Painted("score")[1].value = Prop(gs, "score1")
             /\ Painted("score")[2].value = Prop(gs, "score2")

(***************************************************************************)
(* C11                                                                     *)
(***************************************************************************)
\* C11: until the first game_state frame that carries geometry has been
\* handled (only such a frame sets initialDimensionsSet), no handleResize,
\* neither the one init makes nor one a viewport resize makes, gets past its
\* guard: the canvas style size stays unset and scaleX and scaleY stay 1.
C11_NoReconcileBeforeGeometry ==
    /\ [](~initialDimensionsSet =>
            /\ ~reconciled
            /\ style = [width |-> Unset, height |-> Unset]
            /\ scaleX = Rat(1, 1)
            /\ scaleY = Rat(1, 1))
    /\ [][initialDimensionsSet' # initialDimensionsSet =>
            \E f \in Frames :
               /\ IsGameStateFrame(f)
               /\ HasGeometry(FrameData(f))
               /\ WsMessage(f)]_vars

\* C11's case: a Snapshot without geometry is held, and the viewport resize
\* that came after it on the open connection changed nothing
C11_Witness ==
    /\ pc = "running"
    /\ connState = "Open"
    /\ gameState # Undefined
    /\ ~initialDimensionsSet
    /\ inbound = "none"
    /\ painted = <<>>
    /\ style.width = Unset
    /\ scaleX = Rat(1, 1)

(***************************************************************************)
(* C12                                                                     *)
(***************************************************************************)
\* C12: the handling of a game_state frame is done, canvas resolution
\* included, before anything else reads the Store: in every state in which
\* the held Snapshot carries geometry the canvas resolution is that
\* geometry, and a render in such a state clears a surface of that size.
C12_RenderSeesSyncedCanvas ==
    HasGeometry(gameState) =>
        /\ canvas = [width |-> gameState[1].canvas_width,
                     height |-> gameState[1].canvas_height]
        /\ (painted # <<>> =>
              /\ painted[1].op = "background"
              /\ painted[1].width = gameState[1].canvas_width
              /\ painted[1].height = gameState[1].canvas_height)

\* C12's case: a render ran with a Snapshot whose geometry is not the
\* 800x600 the canvas started with
C12_Witness ==
    /\ painted # <<>>
    /\ HasGeometry(gameState)
    /\ gameState[1].canvas_width = 400
    /\ canvas = [width |-> 400, height |-> 400]

(***************************************************************************)
(* C13                                                                     *)
(***************************************************************************)
\* C13: whatever the container box and the (positive) geometry, the display
\* box handleResize computes has the aspect ratio of the geometry:
\* displayWidth * canvas_height == displayHeight * canvas_width, exactly.
C13_DisplayBoxKeepsAspect ==
    reconciled =>
        NumEq(RMul(style.width[1], Rat(gameState[1].canvas_height, 1)),
              RMul(style.height[1], Rat(gameState[1].canvas_width, 1)))

\* C13's case: geometry 800x600 was fitted into the box 400x500, which has
\* another aspect ratio
C13_Witness ==
    /\ reconciled
    /\ container = <<400, 500>>
    /\ Geometry(gameState) = <<<<800>>, <<600>>>>
    /\ style = [width |-> <<Rat(400, 1)>>, height |-> <<Rat(300, 1)>>]

(***************************************************************************)
(* C14                                                                     *)
(***************************************************************************)
\* C14: handleResize fits to height (displayHeight = containerHeight,
\* displayWidth = displayHeight * gameAspect) exactly when the container's
\* aspect ratio is greater than the game's, and to width (displayWidth =
\* containerWidth, displayHeight = displayWidth / gameAspect) otherwise, the
\* tie included; 1000x500 with 800x600 gives 2000/3 x 500, and 400x500 with
\* 800x600 gives 400 x 300.
C14_FitPathByAspect ==
    reconciled =>
        LET cw == container[1]
            ch == container[2]
            gw == gameState[1].canvas_width
            gh == gameState[1].canvas_height
        IN  /\ IF cw * gh > gw * ch
               THEN style = [width |-> <<Rat(ch * gw, gh)>>, height |-> <<Rat(ch, 1)>>]
               ELSE style = [width |-> <<Rat(cw, 1)>>, height |-> <<Rat(cw * gh, gw)>>]
            /\ (container = <<1000, 500>> /\ gw = 800 /\ gh = 600)
                  => style = [width |-> <<<<2000, 3>>>>, height |-> <<<<500, 1>>>>]
            /\ (container = <<400, 500>> /\ gw = 800 /\ gh = 600)
                  => style = [width |-> <<<<400, 1>>>>, height |-> <<<<300, 1>>>>]

\* C14's case: geometry 800x600 was fitted into the wider box 1000x500, to
\* its height
C14_Witness ==
    /\ reconciled
    /\ container = <<1000, 500>>
    /\ Geometry(gameState) = <<<<800>>, <<600>>>>
    /\ style.height = <<Rat(500, 1)>>
    /\ style.width = <<Rat(2000, 3)>>

(***************************************************************************)
(* C15                                                                     *)
(***************************************************************************)
\* C15: a click on the reset button while the connection is Open sends the
\* one frame {type: reset} and nothing else, and changes neither the
\* Snapshot nor the pressed-key set nor the connection; and a reset frame
\* goes out only in the click's callback, never in a sampler tick.
C15_ResetClickSendsOneReset ==
    /\ [][(ResetClick /\ connState = "Open") =>
            /\ outbox' = <<[type |-> "reset"]>>
            /\ UNCHANGED <<gameState, pressedKeys, connected, connState,
                           readyState, statusText, wsCount>>]_vars
    /\ [][(\E n \in 1..Len(outbox') : outbox'[n].type = "reset")
            => (ResetClick /\ ~Tick)]_vars

\* C15's case: the reset button was clicked on the open connection while a
\* mapped key was held, and the one reset frame went out
C15_Witness ==
    /\ connState = "Open"
    /\ playerId = "player1"
    /\ "w" \in pressedKeys
    /\ gameState # Undefined
    /\ requested = <<[type |-> "reset"]>>
    /\ outbox = <<[type |-> "reset"]>>

(***************************************************************************)
(* C16                                                                     *)
(***************************************************************************)
\* C16 without the render loop: once the connection has closed the status
\* reads Disconnected in every state, and the Snapshot held at the close is
\* neither cleared nor changed.
C16_StatusAndSnapshotFrozen ==
    /\ [](connState = "Closed" => statusText = "Disconnected")
    /\ [][connState = "Closed" => gameState' = gameState]_vars

\* C16: once the connection has closed the status reads Disconnected in
\* every state, the Snapshot held at the close is neither cleared nor
\* changed, and the render loop goes on painting it: a frame stays scheduled
\* and no render raises.
C16_DisconnectedKeepsPainting ==
    /\ C16_StatusAndSnapshotFrozen
    /\ [](connState = "Closed" =>
            (rafPending /\ (painted # <<>> => threw = "none")))

(***************************************************************************)
(* C17                                                                     *)
(***************************************************************************)
\* C17: the held Snapshot changes only in the handling of a game_state
\* frame: sampler ticks, key events, reset clicks, viewport resizes, render
\* frames, frames of any other kind and the open, close and error events
\* leave it as it was.
C17_StoreSingleWriter ==
    /\ [][gameState' # gameState =>
            \E f \in Frames : IsGameStateFrame(f) /\ WsMessage(f)]_vars
    /\ [][(\/ Tick
           \/ ResetClick
           \/ \E k \in Keys : KeyDown(k) \/ KeyUp(k)
           \/ \E box \in Containers : WindowResize(box)
           \/ AnimationFrame
           \/ \E f \in OtherFrames : WsMessage(f)
           \/ WsOpen
           \/ WsClose
           \/ WsError) => gameState' = gameState]_vars

\* C17's case: a Snapshot is held, the other player has left (the notice
\* changed the status), and the tick that followed sent an input frame
C17_Witness ==
    /\ gameState # Undefined
    /\ statusText = "Waiting for other player..."
    /\ outbox # <<>>
    /\ outbox[1].type = "input"

(***************************************************************************)
(* C18                                                                     *)
(***************************************************************************)
\* the lower-case spelling of each key name
LowerCased ==
    [k \in Keys |->
       CASE k \in {"w", "W"} -> "w"
         [] k = "s" -> "s"
         [] k = "a" -> "a"
         [] k = "d" -> "d"
         [] k = "ArrowUp" -> "arrowup"
         [] k = "ArrowDown" -> "arrowdown"
         [] k = "ArrowLeft" -> "arrowleft"
         [] k = "ArrowRight" -> "arrowright"]

\* the key of each direction in each scheme, lower-cased
SchemeKey ==
    [p \in {"PLAYER1", "PLAYER2"} |->
       IF p = "PLAYER1"
       THEN [UP |-> "w", DOWN |-> "s", LEFT |-> "a", RIGHT |-> "d"]
       ELSE [UP |-> "arrowup", DOWN |-> "arrowdown",
             LEFT |-> "arrowleft", RIGHT |-> "arrowright"]]

\* the scheme of the player of this game
OwnScheme == IF playerId = "player1" THEN "PLAYER1" ELSE "PLAYER2"

\* C18: the pressed-key set changes only in key events, a key-down adding
\* the lower-cased key and a key-up removing it, and never in a sampler
\* tick; so a tick sends no frame for a direction whose key is not in the
\* set (it was released, in either letter case, and not pressed since), and
\* every tick in the Open state sends one for a direction whose key is in
\* the set (it was pressed and not released).
C18_KeysOnlyByKeyEvents ==
    /\ [][\A k \in Keys :
            /\ KeyDown(k) => pressedKeys' = pressedKeys \cup {LowerCased[k]}
            /\ KeyUp(k) => pressedKeys' = pressedKeys \ {LowerCased[k]}]_vars
    /\ [][pressedKeys' # pressedKeys =>
            \E k \in Keys : KeyDown(k) \/ KeyUp(k)]_vars
    /\ [][Tick =>
            /\ pressedKeys' = pressedKeys
            /\ \A dir \in Directions :
                  /\ SchemeKey[OwnScheme][dir] \notin pressedKeys
                        => InputFrames(outbox', dir) = <<>>
                  /\ (SchemeKey[OwnScheme][dir] \in pressedKeys
                        /\ connState = "Open")
                        => Len(InputFrames(outbox', dir)) = 1]_vars

\* C18's case: player2 holds ArrowUp, stored lower-cased, and the tick on
\* the open connection has sent UP
C18_Witness ==
    /\ playerId = "player2"
    /\ pressedKeys = {"arrowup"}
    /\ connState = "Open"
    /\ outbox = <<[type |-> "input", action |-> "UP"]>>

(***************************************************************************)
(* C19                                                                     *)
(***************************************************************************)
\* C19: a viewport resize changes neither the canvas resolution nor the
\* Snapshot nor initialDimensionsSet; the canvas resolution is 800x600 until
\* a game_state frame carrying geometry is handled, becomes the geometry of
\* every such frame, and changes in no other callback.
C19_ResolutionFollowsFramesOnly ==
    /\ [][\A box \in Containers :
            WindowResize(box) =>
               UNCHANGED <<canvas, gameState, initialDimensionsSet>>]_vars
    /\ [](~initialDimensionsSet => canvas = [width |-> 800, height |-> 600])
    /\ [][\A f \in Frames :
            (IsGameStateFrame(f) /\ HasGeometry(FrameData(f)) /\ WsMessage(f))
            => canvas' = [width |-> FrameData(f)[1].canvas_width,
                          height |-> FrameData(f)[1].canvas_height]]_vars
    /\ [][canvas' # canvas =>
            \E f \in Frames :
               IsGameStateFrame(f) /\ HasGeometry(FrameData(f)) /\ WsMessage(f)]_vars

\* C19's case: with geometry 400x400 received, a viewport resize has
\* fitted the canvas anew and its resolution is still 400x400
C19_Witness ==
    /\ canvas = [width |-> 400, height |-> 400]
    /\ gameState # Undefined
    /\ HasGeometry(gameState)
    /\ reconciled
    /\ inbound = "none"
    /\ container = <<1000, 500>>
    /\ style.height = <<Rat(500, 1)>>

(***************************************************************************)
(* C20                                                                     *)
(***************************************************************************)
\* C20: the control scheme follows the player identity, which never
\* changes: playerId player1 has w/s/a/d for UP/DOWN/LEFT/RIGHT and every
\* other playerId the four arrow keys; a tick sends a direction exactly
\* when the own scheme's key for it is held, so holding keys of the other
\* scheme only sends nothing.
C20_SchemeFixedByPlayer ==
    /\ [][playerId' = playerId]_vars
    /\ [][(Tick /\ connState = "Open") =>
            /\ \A dir \in Directions :
                  (InputFrames(outbox', dir) # <<>>)
                     <=> (SchemeKey[OwnScheme][dir] \in pressedKeys)
            /\ (pressedKeys \subseteq
                    {SchemeKey[IF OwnScheme = "PLAYER1" THEN "PLAYER2"
                               ELSE "PLAYER1"][dir] : dir \in Directions})
                  => outbox' = <<>>]_vars

\* C20's case: a game whose playerId is neither player1 nor player2 holds w
\* and ArrowDown, and the tick on the open connection has sent DOWN only
C20_Witness ==
    /\ playerId = "spectator"
    /\ pressedKeys = {"w", "arrowdown"}
    /\ connState = "Open"
    /\ outbox = <<[type |-> "input", action |-> "DOWN"]>>

(***************************************************************************)
(* C21                                                                     *)
(***************************************************************************)
\* C21: the first game_state frame that carries geometry runs the
\* reconciler and sets initialDimensionsSet, also when its geometry is the
\* 800x600 the canvas already has; initialDimensionsSet never turns false
\* again.
C21_FirstGeometryReconciles ==
    /\ [][\A f \in Frames :
            (/\ IsGameStateFrame(f)
             /\ HasGeometry(FrameData(f))
             /\ ~initialDimensionsSet
             /\ WsMessage(f))
            => (/\ reconciled'
                /\ initialDimensionsSet'
                /\ style'.width # Unset
                /\ style'.height # Unset)]_vars
    /\ [][initialDimensionsSet => initialDimensionsSet']_vars

\* C21's case: a frame with geometry 800x600 was handled, the canvas is
\* 800x600 as before it, and the reconciler has run
C21_Witness ==
    /\ inbound = "game_state"
    /\ reconciled
    /\ initialDimensionsSet
    /\ Geometry(gameState) = <<<<800>>, <<600>>>>
    /\ canvas = [width |-> CANVAS_WIDTH, height |-> CANVAS_HEIGHT]
    /\ style.width # Unset

(***************************************************************************)
(* C22                                                                     *)
(***************************************************************************)
\* C22: the Store is absent until a game_state frame is handled, present
\* after every game_state frame, and once present never absent again.
C22_StoreNeverAbsentAgain ==
    /\ [][(gameState = Undefined /\ gameState' # Undefined) =>
            \E f \in Frames : IsGameStateFrame(f) /\ WsMessage(f)]_vars
    /\ [][\A f \in Frames :
            (IsGameStateFrame(f) /\ WsMessage(f)) => gameState' # Undefined]_vars
    /\ [][gameState # Undefined => gameState' # Undefined]_vars

(***************************************************************************)
(* C23                                                                     *)
(***************************************************************************)
\* C23: the status reads Connected only while connected is true and
\* Disconnected only while it is false; a player_disconnected notice sets
\* the status to the waiting hint and changes neither connected nor the
\* Snapshot.
C23_StatusMatchesConnected ==
    /\ [](statusText = "Connected" => connected)
    /\ [](statusText = "Disconnected" => ~connected)
    /\ [][\A f \in Frames :
            (/\ f.parses
             /\ f.value # Undefined
             /\ Prop(f.value[1], "type") = <<"player_disconnected">>
             /\ WsMessage(f))
            => (/\ statusText' = "Waiting for other player..."
                /\ UNCHANGED <<connected, gameState>>)]_vars

\* C23's case: with a Snapshot held the notice that the other player left
\* has set the waiting hint, and connected is still true
C23_Witness ==
    /\ inbound = "notice"
    /\ statusText = "Waiting for other player..."
    /\ connected
    /\ gameState # Undefined

(***************************************************************************)
(* C24                                                                     *)
(***************************************************************************)
\* the place of each direction in the order UP, DOWN, LEFT, RIGHT
Rank == [UP |-> 1, DOWN |-> 2, LEFT |-> 3, RIGHT |-> 4]

\* C24: the input frames of one tick go out in the order UP, DOWN, LEFT,
\* RIGHT, and opposite directions do not cancel: with the keys of UP and
\* DOWN both held the tick sends an UP and then a DOWN frame.
C24_TickOrderNoCancel ==
    [][(Tick /\ connState = "Open") =>
         /\ \A i, j \in 1..Len(outbox') :
               i < j => Rank[outbox'[i].action] < Rank[outbox'[j].action]
         /\ ({SchemeKey[OwnScheme]["UP"], SchemeKey[OwnScheme]["DOWN"]}
                 \subseteq pressedKeys)
               => (/\ Len(outbox') >= 2
                   /\ outbox'[1] = [type |-> "input", action |-> "UP"]
                   /\ outbox'[2] = [type |-> "input", action |-> "DOWN"])]_vars

\* C24's case: player1 holds w and s, and the tick on the open connection
\* has sent UP and then DOWN
C24_Witness ==
    /\ playerId = "player1"
    /\ pressedKeys = {"w", "s"}
    /\ connState = "Open"
    /\ outbox = <<[type |-> "input", action |-> "UP"],
                  [type |-> "input", action |-> "DOWN"]>>

=============================================================================
